---- MODULE Spec2Model ----
(***************************************************************************)
(* Model of GeminiLiveService (src/services/geminiLiveService.ts): one     *)
(* service object as App.handleStart creates it, its start()/stop() calls, *)
(* the transport callbacks, the capture callback, the playback scheduler   *)
(* with its completion callbacks and watchdog, and tool dispatch; and of   *)
(* the App's start button replacing that object by a new one.              *)
(*                                                                         *)
(* Time is counted in ticks of 1000 ms: the wall clock `now` drives the    *)
(* setTimeout watchdog, and the output AudioContext's currentTime follows  *)
(* it while that context is running.  Every callback of the JavaScript     *)
(* event loop runs to completion, so each callback (up to its next await)  *)
(* is one action.                                                          *)
(***************************************************************************)
EXTENDS Integers, Sequences, FiniteSets, TLC

(***************************************************************************)
(* Bounds                                                                  *)
(***************************************************************************)
MaxTime == 2
MaxAudio == 2
MaxDur == 2
MaxInterrupts == 1
MaxFrames == 1
MaxCalls == 2
\* audio payloads in the runs that also record captured frames
CaptureAudio == 1
\* audio payloads in the runs whose completion callbacks never arrive
WatchdogAudio == 1
\* frames in the runs that follow the capture pipeline alone
OrderFrames == 3
\* service objects the App creates one after the other
MaxSessions == 2
\* server: session ids, and the clock's last tick
MaxSessionIds == 2
MaxServerTime == 3
\* magic links: tokens generated, verifications, and the clock's last tick
MaxTokens == 2
MaxVerify == 3
MaxClientTime == 3
\* payments: records created, and confirm requests answered or in flight
MaxPayments == 2
MaxConfirms == 2

(***************************************************************************)
(* Program constants                                                       *)
(***************************************************************************)
\* setTimeout(..., buffer.duration * 1000 + 1000): 1000 ms = one tick
WatchdogSlack == 1
\* Math.min(1, rms * 5)
VolumeGain == 5
\* expiresAt: Date.now() + 24 * 60 * 60 * 1000, in ticks of 12 hours
UpdoxSessionTtl == 2
\* expiresAt: new Date(Date.now() + 24 * 60 * 60 * 1000), in ticks of 12 hours
MagicLinkTtl == 2

VARIABLES
    status,              \* last value given to onStatusChange (App: useState('IDLE'))
    startPc,             \* position of start(): "init", "media", "done", "failed"
    stopPc,              \* position of stop(): "idle","closingIn","closingOut","done","rejected"
    conn,                \* transport: "none","connecting","open","erred","closed","failed"
    sessionResolved,     \* sessionPromise has resolved
    stream,              \* MediaStream from getUserMedia: "none", "live", "ended"
    inputAudioContext,   \* "null", "running", "closed"
    outputAudioContext,  \* "null", "running", "closed"
    processor,           \* inputSource/processor: "null", "connected", "disconnected"
    isAgentSpeaking,
    speakingWatchdog,    \* [armed, deadline]
    nextStartTime,
    sourceNodes,         \* set of unit ids
    units,               \* unit id -> [st, start, dur]
    schedOrder,          \* unit ids in the order playAudio scheduled them
    prevEnd,             \* end of the unit scheduled last, -1 after a cancellation
    interrupts,          \* interruption messages handled
    audioBudget,         \* audio payloads the peer may still send
    now,                 \* wall clock
    frozenTime,          \* currentTime of the output context once it is closed
    outbox,              \* frames whose send waits for sessionPromise
    sent,                \* frames handed to session.sendRealtimeInput
    toolCalls,           \* function calls received: [name, threw, responses]
    abandoned,           \* what earlier service objects of the App left running
    updoxSessions,       \* server: sessionId -> expiresAt of its entry, -1 if none
    serverNow,           \* server: Date.now() in ticks of 12 hours
    updoxReply,          \* server: the last response sent, [endpoint, sid, code]
    tokens,              \* magic links: token -> [present, createdAt, expiresAt, used]
    issued,              \* magic links: tokens generated so far
    clientNow,           \* magic links: new Date() in ticks of 12 hours
    verification,        \* magic links: the last result of verifyToken
    verifyCount,         \* magic links: calls of verifyToken so far
    granted,             \* magic links: token -> times verifyToken said valid
    paymentRecords,      \* payments: sequence of [id, status, quickbooksTransactionId]
    quickbooksConfig,    \* payments: "null" or "connected"
    syncing,             \* payments: indices whose confirm awaits QuickBooks
    confirmReplies       \* payments: responses of /api/payments/confirm

serviceVars == <<status, startPc, stopPc, conn, sessionResolved, stream,
          inputAudioContext, outputAudioContext, processor, isAgentSpeaking,
          speakingWatchdog, nextStartTime, sourceNodes, units, schedOrder,
          prevEnd, interrupts, audioBudget, now, frozenTime, outbox, sent,
          toolCalls, abandoned>>

updoxVars == <<updoxSessions, serverNow, updoxReply>>
magicVars == <<tokens, issued, clientNow, verification, verifyCount, granted>>
paymentVars == <<paymentRecords, quickbooksConfig, syncing, confirmReplies>>
otherVars == <<updoxVars, magicVars, paymentVars>>

vars == <<serviceVars, otherVars>>

transportVars == <<conn, sessionResolved>>
budgetVars == <<interrupts, audioBudget>>
captureVars == <<outbox, sent>>
playbackVars == <<speakingWatchdog, nextStartTime, sourceNodes, units,
                  schedOrder, prevEnd>>

(***************************************************************************)
(* Values                                                                  *)
(***************************************************************************)
VoiceState == {"IDLE", "CONNECTING", "LISTENING", "SPEAKING", "PROCESSING",
               "ERROR", "ENDED"}
Terminal == {"ERROR", "ENDED"}

UnitIds == 1..MaxAudio
Durations == 1..MaxDur
NoUnit == [st |-> "none", start |-> 0, dur |-> 0]
StoppedUnit == [st |-> "stopped", start |-> 0, dur |-> 0]
EndedUnit == [st |-> "ended", start |-> 0, dur |-> 0]
Disarmed == [armed |-> FALSE, deadline |-> 0]

\* Input frames of the capture callback, samples in tenths of full scale:
\* silence, a quiet frame and a loud (clamped) frame.
Frames == {<<0, 0>>, <<1, -1>>, <<10, -10>>}

ToolNames == {"logInteraction", "sendPortalLink", "other"}

(***************************************************************************)
(* Frame codec and loudness                                                *)
(***************************************************************************)
RECURSIVE SumSq(_)
SumSq(f) == IF f = <<>> THEN 0 ELSE Head(f) * Head(f) + SumSq(Tail(f))

ISqrt(n) == CHOOSE r \in 0..100 : r * r <= n /\ n < (r + 1) * (r + 1)

\* Math.min(1, Math.sqrt(sum / length) * 5) in hundredths; samples are tenths,
\* so (rms * 5)^2 = 25 * sum / (100 * length).
Volume(inputData) ==
    LET x == (VolumeGain * VolumeGain * SumSq(inputData) * 100) \div Len(inputData)
    IN  IF x >= 100 * 100 THEN 100 ELSE ISqrt(x)

\* Ducking left out: the captured samples go out unchanged
DuckedNever(speaking, inputData) == inputData

\* if (this.isAgentSpeaking) every sample := 0.0
Ducked(speaking, inputData) ==
    IF speaking THEN [i \in 1..Len(inputData) |-> 0] ELSE inputData

\* Float sample (tenths) to 16-bit PCM: clamp to [-1, 1] and scale.
Float32ToInt16Sample(s) ==
    LET c == IF s > 10 THEN 10 ELSE IF s < -10 THEN -10 ELSE s
    IN  IF c < 0 THEN 0 - ((0 - c) * 32768) \div 10 ELSE (c * 32767) \div 10

float32ToInt16(f) == [i \in 1..Len(f) |-> Float32ToInt16Sample(f[i])]

IsSilent(pcm) == \A i \in 1..Len(pcm) : pcm[i] = 0

(***************************************************************************)
(* Clocks                                                                  *)
(***************************************************************************)
\* this.outputAudioContext.currentTime
CurrentTime == IF outputAudioContext = "closed" THEN frozenTime ELSE now

\* the processor delivers audioprocess events
CaptureLive == processor = "connected" /\ inputAudioContext = "running"

(***************************************************************************)
(* Server: Updox sessions (setupUpdoxRoutes)                               *)
(***************************************************************************)
SessionIds == 1..MaxSessionIds
NoSession == -1
NoReply == [endpoint |-> "none", sid |-> 0, code |-> 0]

\* let updoxSessions = new Map()
InitUpdox ==
    /\ updoxSessions = [sid \in SessionIds |-> NoSession]
    /\ serverNow = 0
    /\ updoxReply = NoReply

\* POST /api/updox/authenticate: credentials missing (400), the login at
\* Updox fails (400), or a session is stored under a random id
Authenticate(sid, outcome) ==
    /\ IF outcome = "ok"
       THEN /\ updoxSessions' =
                  [updoxSessions EXCEPT ![sid] = serverNow + UpdoxSessionTtl]
            /\ updoxReply' = [endpoint |-> "authenticate", sid |-> sid,
                              code |-> 200]
       ELSE /\ updoxSessions' = updoxSessions
            /\ updoxReply' = [endpoint |-> "authenticate", sid |-> 0,
                              code |-> 400]
    /\ UNCHANGED <<serviceVars, magicVars, paymentVars, serverNow>>

\* POST /api/updox/patients and the other session endpoints:
\* `if (!session) return 401`, then the call to Updox succeeds or fails
UpdoxRequest(sid, upstreamOk) ==
    /\ updoxReply' =
          [endpoint |-> "patients", sid |-> sid,
           code |-> IF updoxSessions[sid] = NoSession THEN 401
                    ELSE IF upstreamOk THEN 200 ELSE 400]
    /\ UNCHANGED <<serviceVars, magicVars, paymentVars, updoxSessions, serverNow>>

\* POST /api/updox/logout
Logout(sid) ==
    /\ updoxSessions' = [updoxSessions EXCEPT ![sid] = NoSession]
    /\ updoxReply' = [endpoint |-> "logout", sid |-> sid, code |-> 200]
    /\ UNCHANGED <<serviceVars, magicVars, paymentVars, serverNow>>

\* twelve hours pass on the server
ServerTick ==
    /\ serverNow < MaxServerTime
    /\ serverNow' = serverNow + 1
    /\ UNCHANGED <<serviceVars, magicVars, paymentVars, updoxSessions, updoxReply>>

(***************************************************************************)
(* Magic links (MagicLinkService)                                          *)
(***************************************************************************)
TokenIds == 1..MaxTokens
NoToken == [present |-> FALSE, createdAt |-> 0, expiresAt |-> 0, used |-> FALSE]
NoVerification == [token |-> 0, valid |-> FALSE, error |-> "none"]

\* private tokens = new Map()
InitMagic ==
    /\ tokens = [t \in TokenIds |-> NoToken]
    /\ issued = 0
    /\ clientNow = 0
    /\ verification = NoVerification
    /\ verifyCount = 0
    /\ granted = [t \in TokenIds |-> 0]

\* generateMagicLink(appointment): generateSecureToken() draws 32 random
\* characters, a token not drawn before
generateMagicLink ==
    /\ issued < MaxTokens
    /\ tokens' = [tokens EXCEPT ![issued + 1] =
                     [present |-> TRUE, createdAt |-> clientNow,
                      expiresAt |-> clientNow + MagicLinkTtl, used |-> FALSE]]
    /\ issued' = issued + 1
    /\ UNCHANGED <<serviceVars, updoxVars, paymentVars, clientNow,
                   verification, verifyCount, granted>>

\* The token handed back as it was
MarkUsedNever(magicLinkToken) == magicLinkToken

\* magicLinkToken.used = true
MarkUsed(magicLinkToken) == [magicLinkToken EXCEPT !.used = TRUE]

\* the three checks of verifyToken, in their order
VerifyError(magicLinkToken) ==
    IF ~magicLinkToken.present THEN "Invalid or expired link"
    ELSE IF magicLinkToken.used THEN "Link has already been used"
    ELSE IF clientNow > magicLinkToken.expiresAt THEN "Link has expired"
    ELSE "none"

\* verifyToken(token), as MagicLinkJoin's effect calls it
verifyToken(token) ==
    LET error == VerifyError(tokens[token])
    IN  /\ verifyCount < MaxVerify
        /\ verifyCount' = verifyCount + 1
        /\ verification' = [token |-> token, valid |-> error = "none",
                            error |-> error]
        /\ IF error = "none"
           THEN /\ tokens' = [tokens EXCEPT ![token] = MarkUsed(tokens[token])]
                /\ granted' = [granted EXCEPT ![token] = granted[token] + 1]
           ELSE UNCHANGED <<tokens, granted>>
        /\ UNCHANGED <<serviceVars, updoxVars, paymentVars, issued, clientNow>>

\* cleanupExpiredTokens()
cleanupExpiredTokens ==
    /\ tokens' = [t \in TokenIds |->
                     IF tokens[t].present /\ clientNow > tokens[t].expiresAt
                     THEN NoToken ELSE tokens[t]]
    /\ UNCHANGED <<serviceVars, updoxVars, paymentVars, issued, clientNow,
                   verification, verifyCount, granted>>

\* twelve hours pass in the browser
ClientTick ==
    /\ clientNow < MaxClientTime
    /\ clientNow' = clientNow + 1
    /\ UNCHANGED <<serviceVars, updoxVars, paymentVars, tokens, issued,
                   verification, verifyCount, granted>>

(***************************************************************************)
(* Payment server (server.ts)                                              *)
(***************************************************************************)
PaymentIds == 1..MaxPayments

\* let paymentRecords = []; let quickbooksConfig = null
InitPayment ==
    /\ paymentRecords = <<>>
    /\ quickbooksConfig = "null"
    /\ syncing = {}
    /\ confirmReplies = <<>>

\* paymentRecords.findIndex(p => p.id === paymentIntentId)
FindIndex(records, id) ==
    IF \E i \in 1..Len(records) : records[i].id = id
    THEN CHOOSE i \in 1..Len(records) :
            /\ records[i].id = id
            /\ \A j \in 1..(i - 1) : records[j].id # id
    ELSE -1

\* POST /api/payments/create-intent: Stripe refuses (400, nothing stored), or
\* a pending record is pushed under an id from generateId(), not drawn before
CreateIntent(stripeOk) ==
    /\ Len(paymentRecords) < MaxPayments
    /\ paymentRecords' =
          IF stripeOk
          THEN Append(paymentRecords,
                      [id |-> Len(paymentRecords) + 1, status |-> "pending",
                       quickbooksTransactionId |-> FALSE])
          ELSE paymentRecords
    /\ UNCHANGED <<serviceVars, updoxVars, magicVars, quickbooksConfig,
                   syncing, confirmReplies>>

\* A failed sync answered as a failed request
ConfirmResponseStrict(record, qb) ==
    [id |-> record.id, code |-> IF qb = "failed" THEN 400 ELSE 200,
     status |-> record.status, qb |-> qb]

\* res.json(paymentRecords[paymentIndex]); qb tells what the sync did
ConfirmResponse(record, qb) ==
    [id |-> record.id, code |-> 200, status |-> record.status, qb |-> qb]

\* POST /api/payments/confirm, up to the await of syncPaymentToQuickBooks
Confirm(paymentIntentId) ==
    LET paymentIndex == FindIndex(paymentRecords, paymentIntentId)
        updated == [paymentRecords EXCEPT ![paymentIndex].status = "succeeded"]
    IN  /\ Len(confirmReplies) + Cardinality(syncing) < MaxConfirms
        /\ paymentIndex \notin syncing
        /\ IF paymentIndex = -1
           THEN /\ confirmReplies' =
                      Append(confirmReplies,
                             [id |-> paymentIntentId, code |-> 404,
                              status |-> "none", qb |-> "off"])
                /\ UNCHANGED <<paymentRecords, syncing>>
           ELSE /\ paymentRecords' = updated
                /\ IF quickbooksConfig # "null"
                   THEN /\ syncing' = syncing \cup {paymentIndex}
                        /\ confirmReplies' = confirmReplies
                   ELSE /\ syncing' = syncing
                        /\ confirmReplies' =
                              Append(confirmReplies,
                                     ConfirmResponse(updated[paymentIndex], "off"))
        /\ UNCHANGED <<serviceVars, updoxVars, magicVars, quickbooksConfig>>

\* syncPaymentToQuickBooks after its await of axios.post: the invoice id is
\* stored, or the error is thrown, caught by the route and logged; then the
\* route answers
SyncDone(paymentIndex, synced) ==
    LET updated ==
            IF synced
            THEN [paymentRecords EXCEPT
                      ![paymentIndex].quickbooksTransactionId = TRUE]
            ELSE paymentRecords
    IN  /\ paymentIndex \in syncing
        /\ syncing' = syncing \ {paymentIndex}
        /\ paymentRecords' = updated
        /\ confirmReplies' =
              Append(confirmReplies,
                     ConfirmResponse(updated[paymentIndex],
                                     IF synced THEN "synced" ELSE "failed"))
        /\ UNCHANGED <<serviceVars, updoxVars, magicVars, quickbooksConfig>>

\* POST /api/quickbooks/authorize: the token exchange succeeds or fails (400)
QuickbooksAuthorize(exchanged) ==
    /\ quickbooksConfig' = IF exchanged THEN "connected" ELSE quickbooksConfig
    /\ UNCHANGED <<serviceVars, updoxVars, magicVars, paymentRecords, syncing,
                   confirmReplies>>

\* POST /api/quickbooks/disconnect
QuickbooksDisconnect ==
    /\ quickbooksConfig' = "null"
    /\ UNCHANGED <<serviceVars, updoxVars, magicVars, paymentRecords, syncing,
                   confirmReplies>>

InitOther == InitUpdox /\ InitMagic /\ InitPayment

(***************************************************************************)
(* Initial state: the service is constructed, start() not yet called       *)
(***************************************************************************)
InitState(audio) ==
    /\ status = "IDLE"
    /\ startPc = "init"
    /\ stopPc = "idle"
    /\ conn = "none"
    /\ sessionResolved = FALSE
    /\ stream = "none"
    /\ inputAudioContext = "null"
    /\ outputAudioContext = "null"
    /\ processor = "null"
    /\ isAgentSpeaking = FALSE
    /\ speakingWatchdog = Disarmed
    /\ nextStartTime = 0
    /\ sourceNodes = {}
    /\ units = [u \in UnitIds |-> NoUnit]
    /\ schedOrder = <<>>
    /\ prevEnd = -1
    /\ interrupts = 0
    /\ audioBudget = audio
    /\ now = 0
    /\ frozenTime = 0
    /\ outbox = <<>>
    /\ sent = <<>>
    /\ toolCalls = <<>>
    /\ abandoned = <<>>
    /\ InitOther

Init == InitState(MaxAudio)

(***************************************************************************)
(* start()                                                                 *)
(***************************************************************************)
\* LISTENING reported at once, before any handshake
StartCallListening ==
    /\ startPc = "init"
    /\ status' = "LISTENING"
    /\ inputAudioContext' = "running"
    /\ outputAudioContext' = "running"
    /\ startPc' = "media"
    /\ UNCHANGED <<stopPc, transportVars, stream, processor, isAgentSpeaking,
                   playbackVars, budgetVars, now, frozenTime, captureVars,
                   toolCalls, abandoned, otherVars>>

\* start(), up to the await of getUserMedia
StartCall ==
    /\ startPc = "init"
    /\ status' = "CONNECTING"
    /\ inputAudioContext' = "running"
    /\ outputAudioContext' = "running"
    /\ startPc' = "media"
    /\ UNCHANGED <<stopPc, transportVars, stream, processor, isAgentSpeaking,
                   playbackVars, budgetVars, now, frozenTime, captureVars,
                   toolCalls, abandoned, otherVars>>

\* getUserMedia resolves; ai.live.connect is called and not awaited
GetUserMediaOk ==
    /\ startPc = "media"
    /\ startPc' = "done"
    /\ stream' = "live"
    /\ conn' = "connecting"
    /\ UNCHANGED <<status, stopPc, sessionResolved, inputAudioContext,
                   outputAudioContext, processor, isAgentSpeaking,
                   playbackVars, budgetVars, now, frozenTime, captureVars,
                   toolCalls, abandoned, otherVars>>

\* getUserMedia rejects: the catch block reports ERROR
GetUserMediaFail ==
    /\ startPc = "media"
    /\ startPc' = "failed"
    /\ status' = "ERROR"
    /\ UNCHANGED <<stopPc, transportVars, stream, inputAudioContext,
                   outputAudioContext, processor, isAgentSpeaking,
                   playbackVars, budgetVars, now, frozenTime, captureVars,
                   toolCalls, abandoned, otherVars>>

(***************************************************************************)
(* Transport callbacks                                                     *)
(***************************************************************************)
\* onopen: report LISTENING, then setupAudioInput.  On an input context that
\* stop() has already closed, createMediaStreamSource either throws (nothing
\* is assigned) or yields a node that never processes audio.
OnOpen ==
    /\ conn = "connecting"
    /\ conn' = "open"
    /\ status' = "LISTENING"
    /\ IF inputAudioContext = "null"
       THEN processor' = processor
       ELSE IF inputAudioContext = "running"
            THEN processor' = "connected"
            ELSE processor' \in {processor, "connected"}
    /\ UNCHANGED <<startPc, stopPc, sessionResolved, stream, inputAudioContext,
                   outputAudioContext, isAgentSpeaking, playbackVars,
                   budgetVars, now, frozenTime, captureVars, toolCalls,
                   abandoned, otherVars>>

\* sessionPromise resolves after the handshake: the sends deferred by
\* sessionPromise.then run in the order they were registered
ConnectResolved ==
    /\ conn = "open"
    /\ ~sessionResolved
    /\ sessionResolved' = TRUE
    /\ sent' = sent \o outbox
    /\ outbox' = <<>>
    /\ UNCHANGED <<status, startPc, stopPc, conn, stream, inputAudioContext,
                   outputAudioContext, processor, isAgentSpeaking,
                   playbackVars, budgetVars, now, frozenTime, toolCalls,
                   abandoned, otherVars>>

\* the connect promise rejects: it is not awaited, so nothing handles it
ConnectReject ==
    /\ conn = "connecting"
    /\ conn' = "failed"
    /\ UNCHANGED <<status, startPc, stopPc, sessionResolved, stream,
                   inputAudioContext, outputAudioContext, processor,
                   isAgentSpeaking, playbackVars, budgetVars, now, frozenTime,
                   captureVars, toolCalls,
                   abandoned, otherVars>>

\* onerror: console.error, report ERROR
OnError ==
    /\ \/ conn = "connecting"
       \/ conn = "open" /\ sessionResolved
    /\ conn' = "erred"
    /\ status' = "ERROR"
    /\ UNCHANGED <<startPc, stopPc, sessionResolved, stream, inputAudioContext,
                   outputAudioContext, processor, isAgentSpeaking,
                   playbackVars, budgetVars, now, frozenTime, captureVars,
                   toolCalls, abandoned, otherVars>>

\* onclose: report ENDED (the socket closes by itself or after an error)
OnClose ==
    /\ \/ conn = "erred"
       \/ conn = "open" /\ sessionResolved
    /\ conn' = "closed"
    /\ status' = "ENDED"
    /\ UNCHANGED <<startPc, stopPc, sessionResolved, stream, inputAudioContext,
                   outputAudioContext, processor, isAgentSpeaking,
                   playbackVars, budgetVars, now, frozenTime, captureVars,
                   toolCalls, abandoned, otherVars>>

(***************************************************************************)
(* Capture pipeline: processor.onaudioprocess                              *)
(***************************************************************************)
\* The loudness taken from the samples after ducking
CapturedFrameDuckFirst(inputData) ==
    [n    |-> Len(outbox) + Len(sent) + 1,
     orig |-> inputData,
     vol  |-> Volume(Ducked(isAgentSpeaking, inputData)),
     data |-> float32ToInt16(Ducked(isAgentSpeaking, inputData))]

\* n: position in capture order; vol: the value given to onVolumeCallback
CapturedFrame(inputData) ==
    [n    |-> Len(outbox) + Len(sent) + 1,
     orig |-> inputData,
     vol  |-> Volume(inputData),
     data |-> float32ToInt16(Ducked(isAgentSpeaking, inputData))]

\* Each new send put in front of the ones already queued
EnqueueFirst(queue, frame) == <<frame>> \o queue

\* sessionPromise.then(session => session.sendRealtimeInput(...)): reactions
\* of one promise run in the order in which they were registered
Enqueue(queue, frame) == Append(queue, frame)

\* One audioprocess event, for runs of at most `limit` frames.  A stream whose
\* track has ended feeds the source node with silence.
Capture(inputData, limit) ==
    /\ CaptureLive
    /\ Len(outbox) + Len(sent) < limit
    /\ stream = "ended" => IsSilent(inputData)
    /\ IF sessionResolved
       THEN sent' = Enqueue(sent, CapturedFrame(inputData)) /\ outbox' = outbox
       ELSE outbox' = Enqueue(outbox, CapturedFrame(inputData)) /\ sent' = sent
    /\ UNCHANGED <<status, startPc, stopPc, transportVars, stream,
                   inputAudioContext, outputAudioContext, processor,
                   isAgentSpeaking, playbackVars, budgetVars, now, frozenTime,
                   toolCalls, abandoned, otherVars>>

OnAudioProcess(inputData) == Capture(inputData, MaxFrames)

\* The input device goes away mid-session (unplugged, permission revoked): the
\* track of the stream ends.  No handler is registered on the stream or its
\* tracks, so nothing else changes.
DeviceLost ==
    /\ stream = "live"
    /\ stream' = "ended"
    /\ UNCHANGED <<status, startPc, stopPc, transportVars, inputAudioContext,
                   outputAudioContext, processor, isAgentSpeaking,
                   playbackVars, budgetVars, now, frozenTime, captureVars,
                   toolCalls, abandoned, otherVars>>

(***************************************************************************)
(* Playback scheduler                                                      *)
(***************************************************************************)
\* The watermark ignored: every unit starts at the current clock
ScheduleStartNow(nst, cur) == cur

\* if (this.nextStartTime < currentTime) this.nextStartTime = currentTime
ScheduleStart(nst, cur) == IF nst < cur THEN cur ELSE nst

\* The nodes stopped but the set not cleared
stopAllAudioKeep(failing) ==
    /\ units' = units
    /\ sourceNodes' = sourceNodes
    /\ nextStartTime' = CurrentTime
    /\ prevEnd' = -1

\* No try/catch around node.stop(): the first failure ends the function
stopAllAudioAbort(failing) ==
    IF outputAudioContext = "null" \/ failing \cap sourceNodes # {}
    THEN UNCHANGED <<sourceNodes, units, nextStartTime, prevEnd>>
    ELSE /\ units' = [u \in UnitIds |->
                        IF u \in sourceNodes THEN StoppedUnit ELSE units[u]]
         /\ sourceNodes' = {}
         /\ nextStartTime' = CurrentTime
         /\ prevEnd' = -1

\* The nodes stopped and forgotten, the watermark left where it was
stopAllAudioNoReset(failing) ==
    IF outputAudioContext = "null"
    THEN UNCHANGED <<sourceNodes, units, nextStartTime, prevEnd>>
    ELSE /\ units' = [u \in UnitIds |->
                        IF u \in sourceNodes THEN StoppedUnit ELSE units[u]]
         /\ sourceNodes' = {}
         /\ nextStartTime' = nextStartTime
         /\ prevEnd' = -1

\* stopAllAudio(): stop every node, clear the set, nextStartTime := currentTime.
\* `failing` are the nodes whose stop() throws: the catch swallows the error
\* and such a node plays on, no longer tracked.
stopAllAudio(failing) ==
    IF outputAudioContext = "null"
    THEN UNCHANGED <<sourceNodes, units, nextStartTime, prevEnd>>
    ELSE /\ units' = [u \in UnitIds |->
                        IF u \in sourceNodes
                        THEN IF u \in failing
                             THEN [units[u] EXCEPT !.st = "unstopped"]
                             ELSE StoppedUnit
                        ELSE units[u]]
         /\ sourceNodes' = {}
         /\ nextStartTime' = CurrentTime
         /\ prevEnd' = -1

\* playAudio(buffer) for the decoded payload of unit u
playAudio(u) ==
    LET dur == units[u].dur
        start == ScheduleStart(nextStartTime, CurrentTime)
    IN  IF outputAudioContext = "null"
        THEN /\ units' = [units EXCEPT ![u].st = "dropped"]
             /\ UNCHANGED <<speakingWatchdog, sourceNodes, nextStartTime,
                            schedOrder, prevEnd>>
        ELSE /\ speakingWatchdog' =
                    [armed |-> TRUE, deadline |-> now + dur + WatchdogSlack]
             /\ sourceNodes' = sourceNodes \cup {u}
             /\ units' = [units EXCEPT ![u] = [st |-> "sched", start |-> start,
                                               dur |-> dur]]
             /\ nextStartTime' = start + dur
             /\ prevEnd' = start + dur
             /\ schedOrder' = Append(schedOrder, u)

\* await decodeAudioData(...) of some in-flight payload completes
DecodeDone(u) ==
    /\ units[u].st = "decoding"
    /\ playAudio(u)
    /\ UNCHANGED <<status, startPc, stopPc, transportVars, stream,
                   inputAudioContext, outputAudioContext, processor,
                   isAgentSpeaking, budgetVars, now, frozenTime,
                   captureVars, toolCalls,
                   abandoned, otherVars>>

\* the unit has played to its end on a running context
Finished(u) ==
    /\ units[u].st \in {"sched", "unstopped"}
    /\ outputAudioContext = "running"
    /\ now >= units[u].start + units[u].dur

\* source.onended: after natural completion, or after node.stop()
OnEnded(u) ==
    /\ Finished(u) \/ units[u].st = "stopped"
    /\ units' = [units EXCEPT ![u] = EndedUnit]
    /\ sourceNodes' = sourceNodes \ {u}
    /\ IF sourceNodes \ {u} = {}
       THEN /\ isAgentSpeaking' = FALSE
            /\ speakingWatchdog' = Disarmed
            /\ status' = "LISTENING"
       ELSE UNCHANGED <<isAgentSpeaking, speakingWatchdog, status>>
    /\ UNCHANGED <<startPc, stopPc, transportVars, stream, inputAudioContext,
                   outputAudioContext, processor, nextStartTime, schedOrder,
                   prevEnd, budgetVars, now, frozenTime, captureVars, toolCalls,
                   abandoned, otherVars>>

\* The timeout only forgets its timer and resets nothing
WatchdogFireIdle ==
    /\ speakingWatchdog.armed
    /\ now >= speakingWatchdog.deadline
    /\ speakingWatchdog' = Disarmed
    /\ UNCHANGED <<isAgentSpeaking, status>>
    /\ UNCHANGED <<startPc, stopPc, transportVars, stream, inputAudioContext,
                   outputAudioContext, processor, nextStartTime, sourceNodes,
                   units, schedOrder, prevEnd, budgetVars, now, frozenTime,
                   captureVars, toolCalls, abandoned, otherVars>>

\* the setTimeout callback armed by playAudio
WatchdogFire ==
    /\ speakingWatchdog.armed
    /\ now >= speakingWatchdog.deadline
    /\ speakingWatchdog' = Disarmed
    /\ IF isAgentSpeaking
       THEN isAgentSpeaking' = FALSE /\ status' = "LISTENING"
       ELSE UNCHANGED <<isAgentSpeaking, status>>
    /\ UNCHANGED <<startPc, stopPc, transportVars, stream, inputAudioContext,
                   outputAudioContext, processor, nextStartTime, sourceNodes,
                   units, schedOrder, prevEnd, budgetVars, now, frozenTime,
                   captureVars, toolCalls,
                   abandoned, otherVars>>

\* the wall clock advances, as long as it is before `due`
TickUntil(due) ==
    /\ startPc # "init"
    /\ now < due
    /\ now' = now + 1
    /\ UNCHANGED <<status, startPc, stopPc, transportVars, stream,
                   inputAudioContext, outputAudioContext, processor,
                   isAgentSpeaking, playbackVars, budgetVars, frozenTime,
                   captureVars, toolCalls, abandoned, otherVars>>

Tick == TickUntil(MaxTime)

\* time passes until the pending setTimeout of the watchdog is due
TimerTick == speakingWatchdog.armed /\ TickUntil(speakingWatchdog.deadline)

(***************************************************************************)
(* Inbound messages: handleMessage                                         *)
(***************************************************************************)
KnownTool(name) == name \in {"logInteraction", "sendPortalLink"}

\* The for-loop over message.toolCall.functionCalls.  A known call invokes its
\* callback and then sends one tool response; a callback that throws rejects
\* handleMessage, so that call and all later ones get no response; a call of
\* any other name matches neither `if`.
RECURSIVE Dispatch(_, _)
Dispatch(calls, aborted) ==
    IF calls = <<>> THEN <<>>
    ELSE LET fc == Head(calls)
             threw == ~aborted /\ KnownTool(fc.name) /\ fc.throws
             answered == ~aborted /\ KnownTool(fc.name) /\ ~fc.throws
         IN  <<[name |-> fc.name, threw |-> threw,
                responses |-> IF answered THEN 1 ELSE 0]>>
             \o Dispatch(Tail(calls), aborted \/ threw)

Aborts(calls) == \E i \in 1..Len(calls) : KnownTool(calls[i].name) /\ calls[i].throws

FunctionCalls == [name : ToolNames, throws : BOOLEAN]

\* The three inbound message kinds: a tool-call request, or server content
\* carrying an interruption flag and/or an audio payload of some duration.
ToolMessages ==
    {[toolCall |-> c, interrupted |-> FALSE, audio |-> 0] :
        c \in UNION {[1..n -> FunctionCalls] : n \in 1..2}}

ContentMessages ==
    {[toolCall |-> <<>>, interrupted |-> i, audio |-> a] :
        i \in BOOLEAN, a \in {0} \cup Durations} \
    {[toolCall |-> <<>>, interrupted |-> FALSE, audio |-> 0]}

\* first unit id not yet used by an audio payload (MaxAudio + 1: none left)
NextUnit ==
    IF \E u \in UnitIds : units[u].st = "none"
    THEN CHOOSE u \in UnitIds :
            units[u].st = "none" /\ \A v \in UnitIds : v < u => units[v].st # "none"
    ELSE MaxAudio + 1

\* handleMessage(message), up to the await of decodeAudioData; `failing` are
\* the playing nodes whose stop() would throw
handleMessage(msg, failing) ==
    /\ conn = "open"
    /\ sessionResolved
    /\ Len(toolCalls) + Len(msg.toolCall) <= MaxCalls
    /\ msg.interrupted => interrupts < MaxInterrupts
    /\ (~msg.interrupted /\ msg.audio > 0) =>
           audioBudget > 0 /\ NextUnit \in UnitIds
    /\ toolCalls' = toolCalls \o Dispatch(msg.toolCall, FALSE)
    /\ IF Aborts(msg.toolCall)
       THEN UNCHANGED <<status, isAgentSpeaking, sourceNodes, units,
                        nextStartTime, prevEnd, budgetVars>>
       ELSE IF msg.interrupted
       THEN /\ stopAllAudio(failing)
            /\ isAgentSpeaking' = FALSE
            /\ status' = "LISTENING"
            /\ interrupts' = interrupts + 1
            /\ audioBudget' = audioBudget
       ELSE IF msg.audio > 0
       THEN /\ isAgentSpeaking' = TRUE
            /\ status' = "SPEAKING"
            /\ units' = [units EXCEPT ![NextUnit] =
                            [st |-> IF outputAudioContext = "null"
                                    THEN "dropped" ELSE "decoding",
                             start |-> 0, dur |-> msg.audio]]
            /\ audioBudget' = audioBudget - 1
            /\ UNCHANGED <<sourceNodes, nextStartTime, prevEnd, interrupts>>
       ELSE UNCHANGED <<status, isAgentSpeaking, sourceNodes, units,
                        nextStartTime, prevEnd, budgetVars>>
    /\ UNCHANGED <<startPc, stopPc, transportVars, stream, inputAudioContext,
                   outputAudioContext, processor, speakingWatchdog, schedOrder,
                   now, frozenTime, captureVars, abandoned, otherVars>>

\* stop() of a node that has been started does not throw
HandleMessage(msg) == handleMessage(msg, {})

(***************************************************************************)
(* stop()                                                                  *)
(***************************************************************************)
\* stop(), up to the await of inputAudioContext.close()
StopCall ==
    /\ startPc # "init"
    /\ stopPc = "idle"
    /\ stopAllAudio({})
    /\ processor' = IF processor = "null" THEN "null" ELSE "disconnected"
    /\ inputAudioContext' =
           IF inputAudioContext = "null" THEN "null" ELSE "closed"
    /\ stopPc' = "closingIn"
    /\ UNCHANGED <<status, startPc, transportVars, stream, outputAudioContext,
                   isAgentSpeaking, speakingWatchdog, schedOrder, budgetVars,
                   now, frozenTime, captureVars, toolCalls,
                   abandoned, otherVars>>

\* after the first await: outputAudioContext.close()
StopCloseOutput ==
    /\ stopPc = "closingIn"
    /\ outputAudioContext' =
           IF outputAudioContext = "null" THEN "null" ELSE "closed"
    /\ frozenTime' = now
    /\ stopPc' = "closingOut"
    /\ UNCHANGED <<status, startPc, transportVars, stream, inputAudioContext,
                   processor, isAgentSpeaking, playbackVars, budgetVars, now,
                   captureVars, toolCalls,
                   abandoned, otherVars>>

\* after the second await: report ENDED
StopEnd ==
    /\ stopPc = "closingOut"
    /\ status' = "ENDED"
    /\ stopPc' = "done"
    /\ UNCHANGED <<startPc, transportVars, stream, inputAudioContext,
                   outputAudioContext, processor, isAgentSpeaking,
                   playbackVars, budgetVars, now, frozenTime, captureVars,
                   toolCalls, abandoned, otherVars>>

\* stop() called once more on the same object after it has returned.  The
\* fields were never set back to null, and close() on an AudioContext that is
\* already closed rejects with InvalidStateError: the await throws and the
\* rest of stop() is skipped.
StopAgain ==
    /\ stopPc = "done"
    /\ stopAllAudio({})
    /\ processor' = IF processor = "null" THEN "null" ELSE "disconnected"
    /\ IF inputAudioContext = "closed" \/ outputAudioContext = "closed"
       THEN stopPc' = "rejected" /\ status' = status
       ELSE stopPc' = "done" /\ status' = "ENDED"
    /\ UNCHANGED <<startPc, transportVars, stream, inputAudioContext,
                   outputAudioContext, isAgentSpeaking, speakingWatchdog,
                   schedOrder, budgetVars, now, frozenTime, captureVars,
                   toolCalls, abandoned, otherVars>>

(***************************************************************************)
(* App: the start button                                                   *)
(***************************************************************************)
\* VoiceVisualizer offers the start button unless the status is one of the
\* connected ones, and disables it while CONNECTING
StartOffered == status \notin {"CONNECTED", "LISTENING", "SPEAKING", "CONNECTING"}

\* what a service object that is no longer referenced still holds
Leftover == [transport |-> conn, capture |-> CaptureLive]

\* App.handleStart after an earlier start: serviceRef.current is overwritten
\* with a new GeminiLiveService and its start() runs up to getUserMedia.
\* Nothing stops the earlier object; the variables follow the new object and
\* `abandoned` keeps what the earlier one left running.
handleStart ==
    /\ startPc # "init"
    /\ StartOffered
    /\ Len(abandoned) < MaxSessions - 1
    /\ abandoned' = Append(abandoned, Leftover)
    /\ status' = "CONNECTING"
    /\ startPc' = "media"
    /\ stopPc' = "idle"
    /\ conn' = "none"
    /\ sessionResolved' = FALSE
    /\ stream' = "none"
    /\ inputAudioContext' = "running"
    /\ outputAudioContext' = "running"
    /\ processor' = "null"
    /\ isAgentSpeaking' = FALSE
    /\ speakingWatchdog' = Disarmed
    /\ nextStartTime' = 0
    /\ sourceNodes' = {}
    /\ units' = [u \in UnitIds |-> NoUnit]
    /\ schedOrder' = <<>>
    /\ prevEnd' = -1
    /\ frozenTime' = 0
    /\ outbox' = <<>>
    /\ sent' = <<>>
    /\ toolCalls' = <<>>
    /\ UNCHANGED <<budgetVars, now, otherVars>>

(***************************************************************************)
(* Specification                                                           *)
(***************************************************************************)
\* Steps of start(), stop() and the transport that every run can take
Lifecycle ==
    \/ StartCall
    \/ GetUserMediaOk
    \/ GetUserMediaFail
    \/ OnOpen
    \/ ConnectResolved
    \/ ConnectReject
    \/ OnError
    \/ OnClose
    \/ StopCall
    \/ StopCloseOutput
    \/ StopEnd

Playback ==
    \/ \E msg \in ContentMessages : HandleMessage(msg)
    \/ \E u \in UnitIds : DecodeDone(u)
    \/ \E u \in UnitIds : OnEnded(u)
    \/ WatchdogFire
    \/ Tick

\* The session with its playback scheduler
Next == Lifecycle \/ Playback

Spec == Init /\ [][Next]_vars

\* The same with the capture callback recording its frames
InitCapture == InitState(CaptureAudio)

NextCapture == Lifecycle \/ Playback \/ \E f \in Frames : OnAudioProcess(f)

SpecCapture == InitCapture /\ [][NextCapture]_vars

\* The session receiving tool-call requests
InitTools == InitState(0)

NextTools == Lifecycle \/ \E msg \in ToolMessages : HandleMessage(msg)

SpecTools == InitTools /\ [][NextTools]_vars

\* The App's start and stop buttons used more than once
InitApp == InitState(0)

NextApp == Lifecycle \/ StopAgain \/ handleStart

SpecApp == InitApp /\ [][NextApp]_vars

\* Playback whose completion callbacks never arrive: source.onended is left
\* out, timers that are due do fire and time does reach a pending timer
InitWatchdog == InitState(WatchdogAudio)

NextWatchdog ==
    \/ Lifecycle
    \/ \E msg \in ContentMessages : HandleMessage(msg)
    \/ \E u \in UnitIds : DecodeDone(u)
    \/ WatchdogFire
    \/ Tick
    \/ TimerTick

SpecWatchdog ==
    /\ InitWatchdog
    /\ [][NextWatchdog]_vars
    /\ WF_vars(TimerTick)
    /\ WF_vars(WatchdogFire)

\* The capture pipeline and its input device, with no inbound messages
InitInput == InitState(0)

NextInput ==
    \/ Lifecycle
    \/ DeviceLost
    \/ \E f \in Frames : Capture(f, OrderFrames)

SpecInput == InitInput /\ [][NextInput]_vars

\* Interruptions during which node.stop() throws for some playing nodes,
\* followed at one instant of the clock
InitCancel == InitState(MaxAudio)

InterruptionMessages == {msg \in ContentMessages : msg.interrupted}

NextCancel ==
    \/ Lifecycle
    \/ \E msg \in ContentMessages : HandleMessage(msg)
    \/ \E u \in UnitIds : DecodeDone(u)
    \/ \E u \in UnitIds : OnEnded(u)
    \/ \E msg \in InterruptionMessages :
          \E failing \in SUBSET sourceNodes :
             failing # {} /\ handleMessage(msg, failing)

SpecCancel == InitCancel /\ [][NextCancel]_vars

\* The server's Updox routes
InitServer == InitState(0)

NextUpdox ==
    \/ \E sid \in SessionIds, outcome \in {"ok", "missing", "rejected"} :
          Authenticate(sid, outcome)
    \/ \E sid \in SessionIds, upstreamOk \in BOOLEAN :
          UpdoxRequest(sid, upstreamOk)
    \/ \E sid \in SessionIds : Logout(sid)
    \/ ServerTick

SpecUpdox == InitServer /\ [][NextUpdox]_vars

\* The magic-link service with the browser's clock
InitMagicLink == InitState(0)

NextMagicLink ==
    \/ generateMagicLink
    \/ \E token \in TokenIds : verifyToken(token)
    \/ cleanupExpiredTokens
    \/ ClientTick

SpecMagicLink == InitMagicLink /\ [][NextMagicLink]_vars

\* The payment routes of the server
InitPayments == InitState(0)

NextPayments ==
    \/ \E stripeOk \in BOOLEAN : CreateIntent(stripeOk)
    \/ \E id \in PaymentIds : Confirm(id)
    \/ \E i \in PaymentIds, synced \in BOOLEAN : SyncDone(i, synced)
    \/ \E exchanged \in BOOLEAN : QuickbooksAuthorize(exchanged)
    \/ QuickbooksDisconnect

SpecPayments == InitPayments /\ [][NextPayments]_vars

(***************************************************************************)
(* Claims                                                                  *)
(***************************************************************************)
\* the step is a capture callback forwarding one more frame
FrameCaptured == Len(outbox') + Len(sent') = Len(outbox) + Len(sent) + 1

\* the frame that step forwarded
NewFrame ==
    IF Len(sent') > Len(sent) THEN sent'[Len(sent')] ELSE outbox'[Len(outbox')]

NonSilentInput(fr) == \E i \in 1..Len(fr.orig) : fr.orig[i] # 0

\* scheduled units that have not finished
Outstanding == {u \in sourceNodes : units[u].st = "sched"}

\* C1: a frame the capture callback forwards while the reported status is
\* SPEAKING has only zero samples, and the loudness reported for it is the
\* loudness of the original samples; checked for every capture step, whatever
\* messages, completion callbacks and watchdog timeouts ran before it.
C1_DuckedWhileSpeaking ==
    [][(FrameCaptured /\ status = "SPEAKING") =>
          /\ IsSilent(NewFrame.data)
          /\ NewFrame.vol = Volume(NewFrame.orig)]_vars

\* C1 witness: during SPEAKING a non-silent input frame went out zeroed with a
\* positive loudness reported.
C1_Witness ==
    /\ status = "SPEAKING"
    /\ \E i \in 1..Len(sent) :
          NonSilentInput(sent[i]) /\ IsSilent(sent[i].data) /\ sent[i].vol > 0

\* C2: a unit scheduled by playAudio starts no earlier than the end (start plus
\* duration) of the unit scheduled before it, for units scheduled one after the
\* other with no cancellation in between.
C2_NonOverlapping ==
    [][\A u \in UnitIds :
          (units[u].st = "decoding" /\ units'[u].st = "sched" /\ prevEnd >= 0)
              => units'[u].start >= prevEnd]_vars

\* C2 witness: two units are scheduled, the second one queued to start exactly
\* where the first one ends, later than the clock at which it was scheduled.
C2_Witness ==
    \E a, b \in Outstanding :
        /\ a # b
        /\ units[b].start = units[a].start + units[a].dur
        /\ units[b].start > now

\* C3: while a scheduled unit has not finished, the status is SPEAKING and the
\* ducking flag is set (the state is LISTENING only once the last outstanding
\* unit has finished); stated for sessions that have not been reported ERROR
\* or ENDED.
C3_SpeakingWhileOutstanding ==
    (Outstanding # {} /\ status \notin Terminal)
        => (status = "SPEAKING" /\ isAgentSpeaking)

\* C4: the handling of one interruption message leaves no playback unit
\* scheduled, the ducking flag cleared and the status LISTENING.
C4_InterruptionCancelsAll ==
    [][(interrupts' = interrupts + 1) =>
          /\ sourceNodes' = {}
          /\ \A u \in UnitIds : units'[u].st # "sched"
          /\ ~isAgentSpeaking'
          /\ status' = "LISTENING"]_vars

\* C4 witness: an interruption arrived while a unit was scheduled; the unit was
\* stopped, nothing is scheduled any more and the status is LISTENING.
C4_Witness ==
    /\ interrupts > 0
    /\ \E u \in UnitIds : units[u].st = "stopped"
    /\ sourceNodes = {}
    /\ status = "LISTENING"

\* C5: every function call received in a tool-call message has got exactly one
\* tool response once the message has been handled.
C5_EveryCallAnswered ==
    \A i \in 1..Len(toolCalls) : toolCalls[i].responses = 1

\* C6: once stop() has returned, the capture callback no longer runs, no
\* playback unit is scheduled and the transport connection is closed.
C6_StopLeavesNothing ==
    stopPc = "done" =>
        /\ ~CaptureLive
        /\ sourceNodes = {}
        /\ conn \notin {"connecting", "open"}

\* C7: once the status stream has reported ERROR or ENDED, every later status
\* notification is ERROR or ENDED.
C7_TerminalIsFinal ==
    [][(status \in Terminal) => (status' \in Terminal)]_vars

\* C8: while the reported status is ERROR or ENDED, the capture callback
\* forwards no frame, no audio payload is accepted and no unit is scheduled.
C8_NoAudioAfterTerminal ==
    [][(status \in Terminal) =>
          /\ ~FrameCaptured
          /\ \A u \in UnitIds :
                (units[u].st \in {"none", "decoding"})
                    => (units'[u].st = units[u].st)]_vars

\* C9: playAudio schedules the units in the order in which their audio
\* messages were received.
C9_ScheduledInArrivalOrder ==
    \A i, j \in 1..Len(schedOrder) : i < j => schedOrder[i] < schedOrder[j]

\* C10: after the transport's error or close callback has run, the capture
\* pipeline is halted and no playback unit remains scheduled.
C10_TransportFailureTearsDown ==
    conn \in {"erred", "closed"} => (~CaptureLive /\ sourceNodes = {})

\* C11: a second stop() on the same service, with no start in between,
\* completes without failure: it never ends in a rejected promise.
C11_SecondStopCompletes == stopPc # "rejected"

\* C12: a tool call whose callback failed still gets exactly one tool
\* response (the failure-shaped one), and the known calls received after it
\* are answered as well.
C12_ToolFailureIsolated ==
    \A i \in 1..Len(toolCalls) :
        toolCalls[i].threw =>
            /\ toolCalls[i].responses = 1
            /\ \A j \in (i + 1)..Len(toolCalls) :
                  KnownTool(toolCalls[j].name) => toolCalls[j].responses = 1

\* C13: with no completion callback ever arriving, a session that has the
\* ducking flag set and a unit scheduled (its watchdog armed) eventually has
\* the flag cleared with LISTENING, not ERROR, as the status reported.
C13_WatchdogRecovers ==
    (isAgentSpeaking /\ speakingWatchdog.armed)
        ~> (~isAgentSpeaking /\ status = "LISTENING")

\* C13 witness: no interruption arrived and no completion callback ran, the
\* watchdog has fired, and with a unit still scheduled the flag is cleared
\* and the status is LISTENING.
C13_Witness ==
    /\ interrupts = 0
    /\ ~speakingWatchdog.armed
    /\ Outstanding # {}
    /\ ~isAgentSpeaking
    /\ status = "LISTENING"

\* C14: for a start() with no stop() called meanwhile, the status is IDLE
\* until start() is called and CONNECTING from then until the transport's
\* open callback, which reports LISTENING and connects the capture pipeline;
\* the capture pipeline exists only once the handshake has succeeded.
C14_StartSequence ==
    /\ [](stopPc = "idle" =>
             /\ (startPc = "init" => status = "IDLE")
             /\ (startPc \in {"media", "done"} /\ conn \in {"none", "connecting"})
                   => status = "CONNECTING")
    /\ [](processor # "null" => conn \in {"open", "erred", "closed"})
    /\ [][(conn = "connecting" /\ conn' = "open" /\ stopPc = "idle") =>
             /\ status = "CONNECTING"
             /\ status' = "LISTENING"
             /\ processor' = "connected"]_vars

\* C14 witness: the handshake has just succeeded: LISTENING is reported, the
\* capture pipeline is connected, nothing has been received or stopped yet.
C14_Witness ==
    /\ stopPc = "idle"
    /\ startPc = "done"
    /\ conn = "open"
    /\ status = "LISTENING"
    /\ processor = "connected"
    /\ audioBudget = MaxAudio
    /\ interrupts = 0

\* C15: while units queued back to back (each starting exactly where the one
\* before it ends) are still playing, the status reported is SPEAKING: it
\* goes back to LISTENING only after the last of them has finished.  Stated
\* for sessions that got no interruption and no stop() and have not been
\* reported ERROR or ENDED.
C15_SpeakingThroughSpan ==
    \A a, b \in Outstanding :
        (/\ units[b].start = units[a].start + units[a].dur
         /\ now < units[b].start + units[b].dur
         /\ interrupts = 0
         /\ stopPc = "idle"
         /\ status \notin Terminal)
            => status = "SPEAKING"

\* C16: once the connect to the remote service has failed during CONNECTING
\* (its promise rejected), the status reported is ERROR; stated for sessions
\* on which stop() has not been called.
C16_HandshakeFailureReported ==
    (conn = "failed" /\ stopPc = "idle") => status = "ERROR"

\* C17: a failure of the input device is reported: after getUserMedia has
\* failed the status is ERROR (or ENDED, once stop() has run), and the status
\* is never LISTENING or SPEAKING once the stream's track has ended.
C17_DeviceFailureReported ==
    /\ startPc = "failed" => status \in Terminal
    /\ stream = "ended" => status \notin {"LISTENING", "SPEAKING"}

\* every captured frame, in the order of its send
Outbound == sent \o outbox

\* C20: the frames handed to the transport are the captured frames, each
\* once, in the order of capture, those whose send was deferred until the
\* connection promise resolved before those captured after it; a deferred
\* send does not stay pending once the promise has resolved.
C20_SentInCaptureOrder ==
    /\ [](\A i \in 1..Len(Outbound) : Outbound[i].n = i)
    /\ [](sessionResolved => outbox = <<>>)
    /\ [][(~sessionResolved /\ sessionResolved') => sent' = sent \o outbox]_vars

\* C20 witness: the promise has resolved and three captured frames of
\* different content have been handed to the transport.
C20_Witness ==
    /\ sessionResolved
    /\ Len(sent) >= 3
    /\ \A i, j \in 1..Len(sent) : i # j => sent[i].orig # sent[j].orig

\* transport connections that are open, over all service objects
OpenTransports ==
    (IF conn = "open" THEN 1 ELSE 0)
    + Cardinality({i \in 1..Len(abandoned) : abandoned[i].transport = "open"})

\* capture pipelines that deliver frames, over all service objects
CapturePipelines ==
    (IF CaptureLive THEN 1 ELSE 0)
    + Cardinality({i \in 1..Len(abandoned) : abandoned[i].capture})

\* C18: over any sequence of start and stop calls there is never more than
\* one open transport connection and never more than one capture pipeline
\* forwarding frames.
C18_AtMostOneSession == OpenTransports <= 1 /\ CapturePipelines <= 1

\* the transitions of the turn state machine
TurnTransitions ==
    {<<"IDLE", "CONNECTING">>, <<"CONNECTING", "LISTENING">>,
     <<"CONNECTING", "ERROR">>, <<"LISTENING", "SPEAKING">>,
     <<"SPEAKING", "LISTENING">>}
    \cup {<<s, t>> : s \in VoiceState, t \in Terminal}

\* the step calls onStatusChange: the status changes, or an audio payload is
\* accepted (handleMessage reports SPEAKING for each of them)
Notified ==
    \/ status' # status
    \/ audioBudget' # audioBudget

\* C19: every status notification, taken with the one before it, is a
\* transition of the turn state machine.
C19_StatusFollowsStateMachine ==
    [][Notified => <<status, status'>> \in TurnTransitions]_vars

\* the step runs stopAllAudio: an interruption is handled or stop() is called
Cancelled ==
    \/ interrupts' = interrupts + 1
    \/ stopPc = "idle" /\ stopPc' = "closingIn"

C22_LoudnessPerFrame ==
    \A i \in 1..Len(Outbound) :
        /\ Outbound[i].vol \in 0..100
        /\ Outbound[i].vol = Volume(Outbound[i].orig)

\* C22 witness: a loud frame captured while the agent was speaking went out
\* zeroed, and the loudness reported for it is the full scale value 1.
C22_Witness ==
    \E i \in 1..Len(sent) :
        /\ NonSilentInput(sent[i])
        /\ IsSilent(sent[i].data)
        /\ sent[i].vol = 100

\* the entry of session id sid is missing or past its expiresAt
Expired(sid) ==
    updoxSessions[sid] = NoSession \/ serverNow > updoxSessions[sid]

\* C23: a request to a session endpoint whose sessionId has no entry (never
\* created, or logged out) or whose entry is past its expiresAt is answered
\* 401.
C23_ExpiredSessionRejected ==
    [][\A sid \in SessionIds :
          (/\ updoxReply' # updoxReply
           /\ updoxReply'.endpoint = "patients"
           /\ updoxReply'.sid = sid
           /\ Expired(sid))
              => updoxReply'.code = 401]_vars

\* the step is the watchdog's timeout clearing the ducking flag
WatchdogForced ==
    /\ speakingWatchdog.armed
    /\ now >= speakingWatchdog.deadline
    /\ ~speakingWatchdog'.armed
    /\ isAgentSpeaking
    /\ ~isAgentSpeaking'
    /\ units' = units
    /\ interrupts' = interrupts
    /\ stopPc' = stopPc

\* scheduled units whose scheduled end has not been reached
Pending == {u \in Outstanding : now < units[u].start + units[u].dur}

\* C24: the watchdog's timeout never forces LISTENING while a scheduled unit
\* is still pending or playing (its scheduled end, start plus duration, not
\* reached), in particular a unit queued behind earlier units.
C24_WatchdogNeverEarly ==
    [][WatchdogForced => Pending = {}]_vars

\* C25: once an interruption has been handled, no payload received before it
\* is scheduled any more, its decode being in flight or not: so no unit is
\* scheduled while the ducking flag is cleared.  Checked on sessions where
\* nothing was scheduled before, so that only the interruption can have
\* cleared the flag after the payload had set it.
C25_NoScheduleAfterInterruption ==
    [][\A u \in UnitIds :
          (/\ units[u].st = "decoding"
           /\ units'[u].st = "sched"
           /\ schedOrder = <<>>
           /\ interrupts > 0)
              => isAgentSpeaking]_vars

\* C26: in every reachable state the ducking flag agrees with the status
\* last reported: the flag is set if and only if that status is SPEAKING.
C26_FlagAgreesWithStatus == isAgentSpeaking <=> status = "SPEAKING"

\* the step is playAudio scheduling unit u
Scheduled(u) == units[u].st = "decoding" /\ units'[u].st = "sched"

\* C27: the handling of an interruption sets nextStartTime to the current
\* playback clock; playAudio never schedules a unit to start before the
\* current clock; and the first unit scheduled after an interruption starts
\* exactly at the current clock, not at the end of the span of the units that
\* were cancelled.
C27_RestartAtCurrentClock ==
    [][/\ (interrupts' = interrupts + 1 /\ outputAudioContext # "null")
              => nextStartTime' = CurrentTime
       /\ \A u \in UnitIds :
             Scheduled(u) =>
                 /\ units'[u].start >= CurrentTime
                 /\ (prevEnd = -1 /\ interrupts > 0)
                        => units'[u].start = CurrentTime]_vars

\* C27 witness: the first unit was scheduled (to end at 1 or later), an
\* interruption stopped it at clock 0, and the second unit is scheduled to
\* start at clock 0, the current clock.
C27_Witness ==
    /\ interrupts > 0
    /\ now = 0
    /\ schedOrder = <<1, 2>>
    /\ units[1].st = "stopped"
    /\ units[2].st = "sched"
    /\ units[2].start = CurrentTime

\* C28: when the watchdog's timeout has forced the return to LISTENING, the
\* set of tracked playback units is empty: no stale unit is left to keep the
\* completion of a later turn's last unit from reporting LISTENING.
C28_WatchdogLeavesNothingTracked ==
    [][WatchdogForced => sourceNodes' = {}]_vars

\* C29: a magic-link token is single-use and time-limited.  verifyToken says
\* valid at most once per token; when it does, the token was stored, unused
\* and within 24 hours of its generation, and it is marked used; when it says
\* invalid (unknown, used or expired token) the token store is unchanged.
C29_SingleUseTimeLimited ==
    /\ [](\A t \in TokenIds : granted[t] <= 1)
    /\ [][(verifyCount' = verifyCount + 1) =>
             LET t == verification'.token
             IN  IF verification'.valid
                 THEN /\ tokens[t].present
                      /\ ~tokens[t].used
                      /\ clientNow <= tokens[t].createdAt + MagicLinkTtl
                      /\ tokens'[t].used
                 ELSE /\ tokens' = tokens
                      /\ \/ ~tokens[t].present
                         \/ tokens[t].used
                         \/ clientNow > tokens[t].expiresAt]_vars

\* C29 witness: one token was verified once and its second verification was
\* refused as already used, while another token, never verified as valid,
\* has expired in the store.
C29_Witness ==
    \E t, e \in TokenIds :
        /\ granted[t] = 1
        /\ verification =
              [token |-> t, valid |-> FALSE, error |-> "Link has already been used"]
        /\ tokens[e].present
        /\ ~tokens[e].used
        /\ clientNow > tokens[e].expiresAt
        /\ granted[e] = 0

\* the step answers a confirm request
ConfirmAnswered == Len(confirmReplies') = Len(confirmReplies) + 1

\* C30: POST /api/payments/confirm does not depend on QuickBooks.  For an
\* existing record the status is set to succeeded at once and the answer is
\* 200 with the succeeded record, QuickBooks not connected, synced or failed;
\* for an unknown id the answer is 404 and no record changes.
C30_ConfirmIndependentOfQuickBooks ==
    [][/\ \A i \in PaymentIds :
             (i \in syncing' /\ i \notin syncing)
                 => paymentRecords'[i].status = "succeeded"
       /\ ConfirmAnswered =>
             LET reply == confirmReplies'[Len(confirmReplies')]
                 paymentIndex == FindIndex(paymentRecords, reply.id)
             IN  IF paymentIndex = -1
                 THEN reply.code = 404 /\ paymentRecords' = paymentRecords
                 ELSE /\ reply.code = 200
                      /\ reply.status = "succeeded"
                      /\ paymentRecords'[paymentIndex].status = "succeeded"]_vars

\* C30 witness: a confirm whose QuickBooks sync failed was answered 200 with
\* the succeeded record, and a confirm of an unknown id was answered 404.
C30_Witness ==
    /\ \E i \in 1..Len(confirmReplies) :
          /\ confirmReplies[i].qb = "failed"
          /\ confirmReplies[i].code = 200
          /\ confirmReplies[i].status = "succeeded"
          /\ paymentRecords[confirmReplies[i].id].status = "succeeded"
    /\ \E i \in 1..Len(confirmReplies) : confirmReplies[i].code = 404

====
